---- MODULE Spec2Model ----
(***************************************************************************)
(* Model of the inventory service of PawanK21/inventory_system.            *)
(*                                                                         *)
(* Part 1: the SQLite/FastAPI service (src/app.py).  The database tables   *)
(* are the variables items, lots, ledger and reservations.  Request        *)
(* handlers run on worker threads; each thread owns one sqlite3 connection *)
(* (thread_local), whose transaction state is conn[h].  A handler's        *)
(* position in its endpoint function is pc[h], its request req[h], its     *)
(* python locals local[h]; response is the response sent last.             *)
(*                                                                         *)
(* Identifiers are uuid4 strings in the code; here the id of an item, lot  *)
(* or reservation is its position in its table, which is also the order of *)
(* creation.  A ledger row's own id and timestamp are never read by the    *)
(* code, so the ledger table is the bag of its rows without them.  Item    *)
(* names are not modelled.  Quantities are REAL in the code and naturals   *)
(* here.                                                                   *)
(***************************************************************************)
EXTENDS Integers, Sequences, FiniteSets, Bags, TLC

\* ------------------------------------------------------------------ bounds
NumHandlers == 2
MaxItems == 2
MaxLots == 3
MaxReservations == 2

Handlers == 1..NumHandlers
ItemIds == 1..MaxItems
LotIds == 1..MaxLots
ReservationIds == 1..MaxReservations

\* lot codes as byte strings
LotA == <<65>>
LotB == <<66>>
LotC == <<67>>

VARIABLES items, lots, ledger, reservations, conn, pc, req, local, response, touched

db == <<items, lots, ledger, reservations>>
vars == <<items, lots, ledger, reservations, conn, pc, req, local, response, touched>>

NoReq == [op |-> "none"]
NoLocal == <<>>
NoResponse == [h |-> 0, op |-> "none", code |-> "NONE", body |-> <<>>]

\* ------------------------------------------------------- pure helpers
Min(a, b) == IF a <= b THEN a ELSE b

RECURSIVE SumQty(_)
\* SUM(qty) over the rows of a sequence
SumQty(s) == IF s = <<>> THEN 0 ELSE Head(s).qty + SumQty(Tail(s))

RECURSIVE SumRows(_, _)
\* SUM(qty) over the rows S of the bag B, each counted as often as it occurs
SumRows(S, B) ==
    IF S = {} THEN 0
    ELSE LET e == CHOOSE x \in S : TRUE
         IN  e.qty * CopiesIn(e, B) + SumRows(S \ {e}, B)

RECURSIVE SumAvailable(_)
\* sum(lot['available'] for lot in lots)
SumAvailable(s) == IF s = <<>> THEN 0 ELSE Head(s).available + SumAvailable(Tail(s))

\* a write that replaces the table's rows by the new ones
OverwriteAll(B, s) == SetToBag({s[k] : k \in DOMAIN s})

RECURSIVE InsertAll(_, _)
\* the table B after the INSERT of every row of the sequence s
InsertAll(B, s) ==
    IF s = <<>> THEN B ELSE InsertAll(B (+) SetToBag({Head(s)}), Tail(s))

RECURSIVE BinaryLess(_, _)
\* SQLite BINARY collation on TEXT: memcmp, a proper prefix sorts first
BinaryLess(a, b) ==
    IF b = <<>> THEN FALSE
    ELSE IF a = <<>> THEN TRUE
    ELSE IF Head(a) # Head(b) THEN Head(a) < Head(b)
    ELSE BinaryLess(Tail(a), Tail(b))

\* ------------------------------------------------- schema and queries
\* CHECK(qc_status IN (...)) of inventory_lots
QcStatuses == {"APPROVED", "QUARANTINE", "REJECTED"}
\* CHECK(txn_type IN (...)) of inventory_ledger
TxnTypes == {"RECEIVE", "RESERVE", "UNRESERVE", "ISSUE"}
\* CHECK(status IN (...)) of reservations
ReservationStatuses == {"OPEN", "ISSUED", "CANCELLED"}
\* lot_id and reservation_id of a ledger row may be NULL
Null == 0

\* a ledger row written without its reservation reference
UntaggedRow(item_id, lot_id, txn_type, qty, reservation_id) ==
    [item_id |-> item_id, lot_id |-> lot_id, txn_type |-> txn_type, qty |-> qty,
     reservation_id |-> Null]

LedgerRow(item_id, lot_id, txn_type, qty, reservation_id) ==
    [item_id |-> item_id, lot_id |-> lot_id, txn_type |-> txn_type, qty |-> qty,
     reservation_id |-> reservation_id]

ItemExists(item_id) == item_id \in DOMAIN items

\* SUM(CASE WHEN txn_type = t THEN qty ELSE 0 END) ... WHERE item_id = ?
LedgerSumItem(item_id, t) ==
    SumRows({e \in BagToSet(ledger) : e.item_id = item_id /\ e.txn_type = t}, ledger)

\* SUM(CASE WHEN led.txn_type = 'ISSUE' ...) over the ledger rows joined to a lot
LotIssuedQty(lot_id) ==
    SumRows({e \in BagToSet(ledger) : e.lot_id = lot_id /\ e.txn_type = "ISSUE"}, ledger)

\* the sum that also counts the reservations that are no longer OPEN
AnyReservedQty(item_id) ==
    LET Test(r) == r.item_id = item_id
    IN  SumQty(SelectSeq(reservations, Test))

\* SUM(qty) FROM reservations WHERE item_id = ? AND status = 'OPEN'
OpenReservedQty(item_id) ==
    LET Test(r) == r.item_id = item_id /\ r.status = "OPEN"
    IN  SumQty(SelectSeq(reservations, Test))

\* a summary whose on_hand leaves out what REJECTED lots hold
StockOfUsableLots(item_id) ==
    LET Left(k) == IF lots[k].item_id = item_id /\ lots[k].qc_status # "REJECTED"
                   THEN lots[k].received_qty - LotIssuedQty(k)
                   ELSE 0
        on_hand == SumQty([k \in DOMAIN lots |-> [qty |-> Left(k)]])
        reserved == OpenReservedQty(item_id)
    IN  [on_hand |-> on_hand, reserved |-> reserved, available |-> on_hand - reserved]

\* a summary whose on_hand is the quantity the item's lots were received with
StockFromLots(item_id) ==
    LET Test(l) == l.item_id = item_id
        Qty(l) == [qty |-> l.received_qty]
        rows == SelectSeq(lots, Test)
        on_hand == SumQty([k \in DOMAIN rows |-> Qty(rows[k])])
        reserved == OpenReservedQty(item_id)
    IN  [on_hand |-> on_hand, reserved |-> reserved, available |-> on_hand - reserved]

calculate_stock(item_id) ==
    LET received == LedgerSumItem(item_id, "RECEIVE")
        issued == LedgerSumItem(item_id, "ISSUE")
        on_hand == received - issued
        reserved == OpenReservedQty(item_id)
    IN  [on_hand |-> on_hand, reserved |-> reserved, available |-> on_hand - reserved]

\* the query without its qc_status filter
LotAnyStatus(lot_id) == TRUE

\* the filter that only leaves out rejected lots
LotNotRejected(lot_id) == lots[lot_id].qc_status # "REJECTED"

\* WHERE l.qc_status = 'APPROVED'
LotEligible(lot_id) == lots[lot_id].qc_status = "APPROVED"

\* the grouped query without its HAVING clause: exhausted lots stay in
LotsWithoutHaving(item_id) ==
    {l \in DOMAIN lots : lots[l].item_id = item_id /\ LotEligible(l)}

\* the rows of the grouped query of get_available_lots, before ORDER BY
AvailableLotIds(item_id) ==
    {l \in DOMAIN lots :
        /\ lots[l].item_id = item_id
        /\ LotEligible(l)
        /\ lots[l].received_qty - LotIssuedQty(l) > 0}

\* ORDER BY l.lot_code ASC: lot x comes before lot y
LotOrderBefore(x, y) == BinaryLess(lots[x].lot_code, lots[y].lot_code)

RECURSIVE OrderLots(_)
OrderLots(S) ==
    IF S = {} THEN <<>>
    ELSE LET first == CHOOSE x \in S : \A y \in S \ {x} : LotOrderBefore(x, y)
         IN  <<first>> \o OrderLots(S \ {first})

LotRow(l) ==
    [id |-> l, lot_code |-> lots[l].lot_code, received_qty |-> lots[l].received_qty,
     issued_qty |-> LotIssuedQty(l),
     available |-> lots[l].received_qty - LotIssuedQty(l)]

get_available_lots(item_id) ==
    LET ordered == OrderLots(AvailableLotIds(item_id))
    IN  [k \in 1..Len(ordered) |-> LotRow(ordered[k])]

\* the loop that takes all a lot has
WholeLot(lot, remaining_qty) == lot.available

\* qty_from_lot = min(lot['available'], remaining_qty)
QtyFromLot(lot, remaining_qty) == Min(lot.available, remaining_qty)

RECURSIVE IssueLoop(_, _)
\* the for loop of issue_inventory: the lots_issued list it builds
IssueLoop(lotRows, remaining_qty) ==
    IF lotRows = <<>> \/ remaining_qty <= 0 THEN <<>>
    ELSE LET qty_from_lot == QtyFromLot(Head(lotRows), remaining_qty)
         IN  <<[lot_id |-> Head(lotRows).id, lot_code |-> Head(lotRows).lot_code,
                qty |-> qty_from_lot]>>
             \o IssueLoop(Tail(lotRows), remaining_qty - qty_from_lot)

\* the stock check made after the lots check: without an eligible lot the
\* request falls through to NO_QC_APPROVED_LOT
InsufficientAfterLots(item_id, qty) ==
    /\ get_available_lots(item_id) # <<>>
    /\ calculate_stock(item_id).available < qty

\* the stock check that forgets the reserved quantity
InsufficientOnHand(item_id, qty) == calculate_stock(item_id).on_hand < qty

\* summary.available < request.qty
InsufficientStock(item_id, qty) == calculate_stock(item_id).available < qty

\* the issue that does not look at the reservation's status
StatusNotChecked(reservation_id) == FALSE

\* reservation['status'] != 'OPEN'
ReservationNotOpen(reservation_id) == reservations[reservation_id].status # "OPEN"

\* the receive that puts every lot in QUARANTINE
AlwaysQuarantine(item_id) == "QUARANTINE"

\* the receive that ignores the item's qc_required flag
NoQuarantine(item_id) == "APPROVED"

\* "QUARANTINE" if item['qc_required'] else "APPROVED"
InitialQcStatus(item_id) == IF items[item_id].qc_required THEN "QUARANTINE" ELSE "APPROVED"

\* ------------------------------------------------ connections and lock
\* conn[h]: "none" = autocommit, "deferred" = open transaction without the
\* write lock, "write" = open transaction holding the database write lock
ConnStates == {"none", "deferred", "write"}

\* a plain BEGIN: the transaction starts whoever holds the write lock
LockNotTaken(h) == TRUE

\* BEGIN IMMEDIATE, or the first write statement of a deferred transaction,
\* gets the write lock: no other connection holds it
LockFree(h) == \A g \in Handlers \ {h} : conn[g] # "write"

\* a handler that answers INTERNAL_ERROR whatever it has done
RespondFailure(h, op, code, body) ==
    response' = [h |-> h, op |-> op, code |-> "INTERNAL_ERROR", body |-> <<>>]

\* response: the response sent last, until the next request arrives
Respond(h, op, code, body) ==
    response' = [h |-> h, op |-> op, code |-> code, body |-> body]

\* the handler returns: its request and locals are gone
Finish(h) ==
    /\ pc' = [pc EXCEPT ![h] = "idle"]
    /\ req' = [req EXCEPT ![h] = NoReq]
    /\ local' = [local EXCEPT ![h] = NoLocal]

\* touched: the OPEN reservations that have seen an updateLotQcStatus call
\* arrive since they were created (a note the code does not keep)
OpenReservations == {r \in DOMAIN reservations : reservations[r].status = "OPEN"}

\* calls of one endpoint that are in flight
InFlight(op) == Cardinality({h \in Handlers : req[h].op = op})

\* the reserve calls on an item that are in flight, other than h's
OtherReserves(h, item_id) ==
    {g \in Handlers \ {h} : req[g].op = "reserve" /\ req[g].item_id = item_id}

Init ==
    /\ items = <<>>
    /\ lots = <<>>
    /\ ledger = EmptyBag
    /\ reservations = <<>>
    /\ conn = [h \in Handlers |-> "none"]
    /\ pc = [h \in Handlers |-> "idle"]
    /\ req = [h \in Handlers |-> NoReq]
    /\ local = [h \in Handlers |-> NoLocal]
    /\ response = NoResponse
    /\ touched = {}

\* ------------------------------------------------------------- actions
\* POST /items: one INSERT (python's sqlite3 opens a deferred transaction
\* before it) and a commit; the IntegrityError path does not roll back and
\* a busy error is not caught
CreateItem(h, code, qc_required) ==
    /\ pc[h] = "idle"
    /\ \/ Len(items) < MaxItems
       \/ \E i \in DOMAIN items : items[i].code = code
    /\ IF conn[h] # "write" /\ ~LockFree(h)
       THEN /\ conn' = [conn EXCEPT ![h] = "deferred"]
            /\ Respond(h, "create_item", "UNHANDLED_ERROR", <<>>)
            /\ UNCHANGED items
       ELSE IF \E i \in DOMAIN items : items[i].code = code
       THEN /\ conn' = [conn EXCEPT ![h] = "write"]
            /\ Respond(h, "create_item", "DUPLICATE_ITEM_CODE", <<>>)
            /\ UNCHANGED items
       ELSE /\ items' = Append(items, [code |-> code, qc_required |-> qc_required])
            /\ conn' = [conn EXCEPT ![h] = "none"]
            /\ Respond(h, "create_item", "OK", [id |-> Len(items) + 1])
    /\ UNCHANGED <<lots, ledger, reservations, pc, req, local>>
    /\ UNCHANGED touched

\* GET /inventory/summary/{item_id}
GetStockSummary(h, item_id) ==
    /\ pc[h] = "idle"
    /\ IF ~ItemExists(item_id)
       THEN Respond(h, "summary", "ITEM_NOT_FOUND", <<>>)
       ELSE Respond(h, "summary", "OK", calculate_stock(item_id))
    /\ UNCHANGED <<items, lots, ledger, reservations, conn, pc, req, local>>
    /\ UNCHANGED touched

\* POST /inventory/receive up to BEGIN IMMEDIATE: get_item and the choice of
\* the lot's qc_status happen before the transaction starts
ReceiveCall(h, item_id, lot_code, qty) ==
    /\ pc[h] = "idle"
    /\ IF ~ItemExists(item_id)
       THEN /\ Respond(h, "receive", "ITEM_NOT_FOUND", <<>>)
            /\ UNCHANGED <<pc, req, local>>
       ELSE /\ \/ Len(lots) + InFlight("receive") < MaxLots
               \/ \E l \in DOMAIN lots : lots[l].lot_code = lot_code
            /\ pc' = [pc EXCEPT ![h] = "begin"]
            /\ req' = [req EXCEPT ![h] = [op |-> "receive", item_id |-> item_id,
                                          lot_code |-> lot_code, qty |-> qty]]
            /\ local' = [local EXCEPT ![h] = [qc_status |-> InitialQcStatus(item_id)]]
            /\ response' = NoResponse
    /\ UNCHANGED <<items, lots, ledger, reservations, conn>>
    /\ UNCHANGED touched

\* POST /inventory/reserve arrives; its first statement is BEGIN IMMEDIATE.
\* local[h] notes what the item's available was on arrival (avail0), how much
\* of it other reserve calls have been granted since (granted), and whether
\* no stock was received for the item since (clean); the code reads none of
\* the three.
ReserveCall(h, item_id, qty) ==
    /\ pc[h] = "idle"
    /\ \/ Len(reservations) + InFlight("reserve") < MaxReservations
       \/ ~ItemExists(item_id)
       \/ InsufficientStock(item_id, qty) /\ InFlight("receive") = 0
    /\ pc' = [pc EXCEPT ![h] = "begin"]
    /\ req' = [req EXCEPT ![h] = [op |-> "reserve", item_id |-> item_id, qty |-> qty]]
    /\ local' = [local EXCEPT ![h] = [avail0 |-> calculate_stock(item_id).available,
                                      granted |-> 0, clean |-> TRUE]]
    /\ response' = NoResponse
    /\ UNCHANGED <<items, lots, ledger, reservations, conn>>
    /\ UNCHANGED touched

\* POST /inventory/issue arrives
IssueCall(h, reservation_id) ==
    /\ pc[h] = "idle"
    /\ pc' = [pc EXCEPT ![h] = "begin"]
    /\ req' = [req EXCEPT ![h] = [op |-> "issue", reservation_id |-> reservation_id]]
    /\ response' = NoResponse
    /\ UNCHANGED <<items, lots, ledger, reservations, conn, local>>
    /\ UNCHANGED touched

\* a qc_status parameter that takes any status of the lots table
AnyQcStatus == QcStatuses

\* qc_status: Literal["APPROVED", "REJECTED"]
QcTargets == {"APPROVED", "REJECTED"}

\* PATCH /inventory/lots/{lot_id}/qc-status arrives; a qc_status outside
\* the Literal is refused before the handler runs
UpdateQcCall(h, lot_id, qc_status) ==
    /\ pc[h] = "idle"
    /\ qc_status \in QcTargets
    /\ pc' = [pc EXCEPT ![h] = "begin"]
    /\ req' = [req EXCEPT ![h] = [op |-> "update_qc", lot_id |-> lot_id,
                                  qc_status |-> qc_status]]
    /\ response' = NoResponse
    /\ UNCHANGED <<items, lots, ledger, reservations, conn, local>>
    /\ touched' = touched \cup OpenReservations

\* the step that follows a successful BEGIN IMMEDIATE
AfterBegin(op) ==
    CASE op = "receive" -> "write"
      [] op = "update_qc" -> "body"
      [] OTHER -> "check"

\* cursor.execute("BEGIN IMMEDIATE") takes the write lock
BeginImmediate(h) ==
    /\ pc[h] = "begin"
    /\ conn[h] = "none"
    /\ LockFree(h)
    /\ conn' = [conn EXCEPT ![h] = "write"]
    /\ pc' = [pc EXCEPT ![h] = AfterBegin(req[h].op)]
    /\ UNCHANGED <<items, lots, ledger, reservations, req, local, response>>
    /\ UNCHANGED touched

\* BEGIN IMMEDIATE gives up after the busy timeout ("database is locked"):
\* except Exception -> conn.rollback() -> 500 INTERNAL_ERROR
BeginBusy(h) ==
    /\ pc[h] = "begin"
    /\ conn[h] = "none"
    /\ ~LockFree(h)
    /\ Respond(h, req[h].op, "INTERNAL_ERROR", <<>>)
    /\ Finish(h)
    /\ UNCHANGED <<items, lots, ledger, reservations, conn>>
    /\ UNCHANGED touched

\* BEGIN IMMEDIATE on a connection whose earlier transaction was never
\* ended: OperationalError -> except Exception -> conn.rollback() -> 500
BeginNested(h) ==
    /\ pc[h] = "begin"
    /\ conn[h] # "none"
    /\ conn' = [conn EXCEPT ![h] = "none"]
    /\ Respond(h, req[h].op, "INTERNAL_ERROR", <<>>)
    /\ Finish(h)
    /\ UNCHANGED <<items, lots, ledger, reservations>>
    /\ UNCHANGED touched

\* a constraint UNIQUE(item_id, lot_code): the code is taken within the item
LotCodeTakenForItem(item_id, lot_code) ==
    \E l \in DOMAIN lots : lots[l].item_id = item_id /\ lots[l].lot_code = lot_code

\* lot_code TEXT UNIQUE NOT NULL: the INSERT fails when any lot, of whatever
\* item, has the code
LotCodeTaken(item_id, lot_code) ==
    \E l \in DOMAIN lots : lots[l].lot_code = lot_code

\* receive_inventory inside the transaction: two INSERTs and the commit, or
\* the IntegrityError of the UNIQUE lot_code and the rollback
ReceiveWrite(h) ==
    /\ pc[h] = "write"
    /\ req[h].op = "receive"
    /\ IF LotCodeTaken(req[h].item_id, req[h].lot_code)
       THEN /\ Respond(h, "receive", "DUPLICATE_LOT_CODE", <<>>)
            /\ local' = [local EXCEPT ![h] = NoLocal]
            /\ UNCHANGED <<lots, ledger>>
       ELSE /\ lots' = Append(lots, [item_id |-> req[h].item_id,
                                     lot_code |-> req[h].lot_code,
                                     received_qty |-> req[h].qty,
                                     qc_status |-> local[h].qc_status])
            /\ ledger' = ledger (+) SetToBag({LedgerRow(req[h].item_id, Len(lots) + 1,
                                                        "RECEIVE", req[h].qty, Null)})
            /\ Respond(h, "receive", "OK",
                       [lot_id |-> Len(lots) + 1, qc_status |-> local[h].qc_status])
            /\ local' = [g \in Handlers |->
                           IF g \in OtherReserves(h, req[h].item_id)
                           THEN [local[g] EXCEPT !.clean = FALSE]
                           ELSE IF g = h THEN NoLocal ELSE local[g]]
    /\ conn' = [conn EXCEPT ![h] = "none"]
    /\ pc' = [pc EXCEPT ![h] = "idle"]
    /\ req' = [req EXCEPT ![h] = NoReq]
    /\ UNCHANGED <<items, reservations>>
    /\ UNCHANGED touched

\* reserve_inventory from get_item to the two checks
ReserveCheck(h) ==
    /\ pc[h] = "check"
    /\ req[h].op = "reserve"
    /\ IF ~ItemExists(req[h].item_id)
       THEN \* get_item raises HTTPException: re-raised without rollback
            /\ Respond(h, "reserve", "ITEM_NOT_FOUND", <<>>)
            /\ Finish(h)
            /\ UNCHANGED conn
       ELSE IF InsufficientStock(req[h].item_id, req[h].qty)
       THEN /\ Respond(h, "reserve", "INSUFFICIENT_STOCK", <<>>)
            /\ conn' = [conn EXCEPT ![h] = "none"]
            /\ Finish(h)
       ELSE IF get_available_lots(req[h].item_id) = <<>>
       THEN /\ Respond(h, "reserve", "NO_QC_APPROVED_LOT", <<>>)
            /\ conn' = [conn EXCEPT ![h] = "none"]
            /\ Finish(h)
       ELSE /\ pc' = [pc EXCEPT ![h] = "write"]
            /\ UNCHANGED <<conn, req, local, response>>
    /\ UNCHANGED <<items, lots, ledger, reservations>>
    /\ UNCHANGED touched

\* a reservation row inserted as already issued
ReservationRowIssued(item_id, qty) ==
    [item_id |-> item_id, qty |-> qty, status |-> "ISSUED"]

\* INSERT INTO reservations (...) VALUES (?, ?, ?, 'OPEN', ?)
ReservationRow(item_id, qty) ==
    [item_id |-> item_id, qty |-> qty, status |-> "OPEN"]

\* reserve_inventory: INSERT reservation, INSERT RESERVE entry, commit
ReserveWrite(h) ==
    /\ pc[h] = "write"
    /\ req[h].op = "reserve"
    /\ reservations' = Append(reservations, ReservationRow(req[h].item_id, req[h].qty))
    /\ ledger' = ledger (+) SetToBag({LedgerRow(req[h].item_id, Null, "RESERVE",
                                                req[h].qty, Len(reservations) + 1)})
    /\ conn' = [conn EXCEPT ![h] = "none"]
    /\ Respond(h, "reserve", "OK",
               [reservation_id |-> Len(reservations) + 1, item_id |-> req[h].item_id,
                qty |-> req[h].qty])
    /\ local' = [g \in Handlers |->
                   IF g \in OtherReserves(h, req[h].item_id)
                   THEN [local[g] EXCEPT !.granted = @ + req[h].qty]
                   ELSE IF g = h THEN NoLocal ELSE local[g]]
    /\ pc' = [pc EXCEPT ![h] = "idle"]
    /\ req' = [req EXCEPT ![h] = NoReq]
    /\ UNCHANGED <<items, lots>>
    /\ UNCHANGED touched

\* issue_inventory from the SELECT of the reservation to the stock checks
IssueCheck(h) ==
    /\ pc[h] = "check"
    /\ req[h].op = "issue"
    /\ LET rid == req[h].reservation_id IN
       IF rid \notin DOMAIN reservations
       THEN /\ Respond(h, "issue", "RESERVATION_NOT_FOUND", <<>>)
            /\ conn' = [conn EXCEPT ![h] = "none"]
            /\ Finish(h)
       ELSE IF ReservationNotOpen(rid)
       THEN /\ Respond(h, "issue", "RESERVATION_ALREADY_ISSUED", <<>>)
            /\ conn' = [conn EXCEPT ![h] = "none"]
            /\ Finish(h)
       ELSE LET avail_lots == get_available_lots(reservations[rid].item_id) IN
            IF avail_lots = <<>>
            THEN /\ Respond(h, "issue", "NO_QC_APPROVED_LOT", <<>>)
                 /\ conn' = [conn EXCEPT ![h] = "none"]
                 /\ Finish(h)
            ELSE IF SumAvailable(avail_lots) < reservations[rid].qty
            THEN /\ Respond(h, "issue", "INSUFFICIENT_STOCK", <<>>)
                 /\ conn' = [conn EXCEPT ![h] = "none"]
                 /\ Finish(h)
            ELSE /\ pc' = [pc EXCEPT ![h] = "write"]
                 /\ local' = [local EXCEPT ![h] =
                                [item_id |-> reservations[rid].item_id,
                                 qty_to_issue |-> reservations[rid].qty,
                                 lots |-> avail_lots]]
                 /\ UNCHANGED <<conn, req, response>>
    /\ UNCHANGED <<items, lots, ledger, reservations>>
    /\ UNCHANGED touched

\* issue_inventory: the FIFO loop, the status UPDATE, the UNRESERVE entry
\* and the commit
IssueWrite(h) ==
    /\ pc[h] = "write"
    /\ req[h].op = "issue"
    /\ LET rid == req[h].reservation_id
           lots_issued == IssueLoop(local[h].lots, local[h].qty_to_issue)
           issues == [k \in 1..Len(lots_issued) |->
                        LedgerRow(local[h].item_id, lots_issued[k].lot_id, "ISSUE",
                                  lots_issued[k].qty, rid)]
       IN  /\ ledger' = InsertAll(ledger, issues \o
                            <<LedgerRow(local[h].item_id, Null, "UNRESERVE",
                                        local[h].qty_to_issue, rid)>>)
           /\ reservations' = [reservations EXCEPT ![rid].status = "ISSUED"]
           /\ Respond(h, "issue", "OK",
                      [reservation_id |-> rid, item_id |-> local[h].item_id,
                       qty |-> local[h].qty_to_issue, lots_issued |-> lots_issued])
    /\ conn' = [conn EXCEPT ![h] = "none"]
    /\ Finish(h)
    /\ UNCHANGED <<items, lots>>
    /\ touched' = touched \ {req[h].reservation_id}

\* a QC decision that also writes the lot's quantity off
SetQcStatusAndQty(lot_id, qc_status) ==
    [lots EXCEPT ![lot_id].qc_status = qc_status, ![lot_id].received_qty = 0]

\* UPDATE inventory_lots SET qc_status = ? WHERE id = ?
SetQcStatus(lot_id, qc_status) ==
    [lots EXCEPT ![lot_id].qc_status = qc_status]

\* update_lot_qc_status inside the transaction; the LOT_NOT_FOUND
\* HTTPException is re-raised without rollback
UpdateQcBody(h) ==
    /\ pc[h] = "body"
    /\ req[h].op = "update_qc"
    /\ IF req[h].lot_id \notin DOMAIN lots
       THEN /\ Respond(h, "update_qc", "LOT_NOT_FOUND", <<>>)
            /\ UNCHANGED <<lots, conn, touched>>
       ELSE /\ lots' = SetQcStatus(req[h].lot_id, req[h].qc_status)
            /\ conn' = [conn EXCEPT ![h] = "none"]
            /\ Respond(h, "update_qc", "OK",
                       [lot_id |-> req[h].lot_id, qc_status |-> req[h].qc_status])
            /\ UNCHANGED touched
    /\ Finish(h)
    /\ UNCHANGED <<items, ledger, reservations>>

\* ------------------------------------------------------ specifications
\* Spec: NumHandlers worker threads serve write requests concurrently; one
\* item code, two lot codes, one quantity.
ConcItemCodes == {"STEEL"}
ConcItemIds == {1}
ConcLotCodes == {LotA, LotB}
ConcReceiveQtys == {30}
ConcLotIds == {1, 2}
ConcReserveQtys == {30}

Next ==
    \E h \in Handlers :
        \/ \E code \in ConcItemCodes, qc \in BOOLEAN : CreateItem(h, code, qc)
        \/ \E i \in ConcItemIds, c \in ConcLotCodes, q \in ConcReceiveQtys :
              ReceiveCall(h, i, c, q)
        \/ \E i \in ConcItemIds, q \in ConcReserveQtys : ReserveCall(h, i, q)
        \/ \E r \in ReservationIds : IssueCall(h, r)
        \/ \E l \in ConcLotIds, s \in QcStatuses : UpdateQcCall(h, l, s)
        \/ BeginImmediate(h)
        \/ BeginBusy(h)
        \/ BeginNested(h)
        \/ ReceiveWrite(h)
        \/ ReserveCheck(h)
        \/ ReserveWrite(h)
        \/ IssueCheck(h)
        \/ IssueWrite(h)
        \/ UpdateQcBody(h)

Spec == Init /\ [][Next]_vars

\* SpecSeq: one worker thread serves the requests one after the other (as
\* the test client of test_app.py does); items with and without QC, two lot
\* codes, two quantities.
SeqHandlers == {1}
SeqItemCodes == {"STEEL"}
SeqItemIds == {1}
SeqLotCodes == {LotA, LotB}
SeqReceiveQtys == {30, 40}
SeqReserveQtys == {30, 80}

NextSeq ==
    \E h \in SeqHandlers :
        \/ \E code \in SeqItemCodes, qc \in BOOLEAN : CreateItem(h, code, qc)
        \/ \E i \in SeqItemIds : GetStockSummary(h, i)
        \/ \E i \in SeqItemIds, c \in SeqLotCodes, q \in SeqReceiveQtys :
              ReceiveCall(h, i, c, q)
        \/ \E i \in SeqItemIds, q \in SeqReserveQtys : ReserveCall(h, i, q)
        \/ \E r \in ReservationIds : IssueCall(h, r)
        \/ \E l \in LotIds, s \in QcStatuses : UpdateQcCall(h, l, s)
        \/ BeginImmediate(h)
        \/ BeginNested(h)
        \/ ReceiveWrite(h)
        \/ ReserveCheck(h)
        \/ ReserveWrite(h)
        \/ IssueCheck(h)
        \/ IssueWrite(h)
        \/ UpdateQcBody(h)

SpecSeq == Init /\ [][NextSeq]_vars

\* SpecFifo: one worker thread, an item without QC and no QC decisions;
\* three lot codes and the quantities of test_multiple_lots_fifo_issuing
\* (lots of 30 and 40, reservations of 30 and 80).
FifoItemCodes == {"STEEL"}
FifoItemIds == {1}
FifoLotCodes == {LotA, LotB, LotC}
FifoReceiveQtys == {30, 40}
FifoReserveQtys == {30, 80}

NextFifo ==
    \E h \in SeqHandlers :
        \/ \E code \in FifoItemCodes : CreateItem(h, code, FALSE)
        \/ \E i \in FifoItemIds : GetStockSummary(h, i)
        \/ \E i \in FifoItemIds, c \in FifoLotCodes, q \in FifoReceiveQtys :
              ReceiveCall(h, i, c, q)
        \/ \E i \in FifoItemIds, q \in FifoReserveQtys : ReserveCall(h, i, q)
        \/ \E r \in ReservationIds : IssueCall(h, r)
        \/ BeginImmediate(h)
        \/ BeginNested(h)
        \/ ReceiveWrite(h)
        \/ ReserveCheck(h)
        \/ ReserveWrite(h)
        \/ IssueCheck(h)
        \/ IssueWrite(h)

SpecFifo == Init /\ [][NextFifo]_vars

\* SpecItems: two worker threads and two items without QC; two lot codes,
\* one quantity, no QC decisions.
ItemsItemCodes == {"STEEL", "BOLT"}
ItemsItemIds == {1, 2}
ItemsLotCodes == {LotA, LotB}
ItemsReceiveQtys == {30}
ItemsReserveQtys == {30}

NextItems ==
    \E h \in Handlers :
        \/ \E code \in ItemsItemCodes : CreateItem(h, code, FALSE)
        \/ \E i \in ItemsItemIds, c \in ItemsLotCodes, q \in ItemsReceiveQtys :
              ReceiveCall(h, i, c, q)
        \/ \E i \in ItemsItemIds, q \in ItemsReserveQtys : ReserveCall(h, i, q)
        \/ \E r \in ReservationIds : IssueCall(h, r)
        \/ BeginImmediate(h)
        \/ BeginBusy(h)
        \/ BeginNested(h)
        \/ ReceiveWrite(h)
        \/ ReserveCheck(h)
        \/ ReserveWrite(h)
        \/ IssueCheck(h)
        \/ IssueWrite(h)

SpecItems == Init /\ [][NextItems]_vars

TypeOK ==
    /\ \A h \in Handlers : conn[h] \in ConnStates
    /\ \A l \in DOMAIN lots : lots[l].qc_status \in QcStatuses
    /\ \A e \in BagToSet(ledger) : e.txn_type \in TxnTypes
    /\ \A r \in DOMAIN reservations : reservations[r].status \in ReservationStatuses

\* ------------------------------------ main.py: the in-memory service
\* In SpecService the variables items, lots, ledger and reservations hold
\* the four lists of Database; ledger is a sequence, in append order. An id
\* is the position of its object in its list. The endpoints are async
\* functions that call the synchronous service without awaiting, so the
\* event loop serves one request at a time: each operation is one step.
\* conn, pc, req, local and touched keep their initial values.
MaxServiceItems == 6
MaxServiceLots == 6
MaxServiceReservations == 3

ServiceStatuses == {"ACTIVE", "PARTIAL", "COMPLETED"}

\* InventoryLedger(itemId, lotId, txnType, qty, metadata): of the metadata
\* the reservationId, Null where the entry has none
ServiceEntry(itemId, lotId, txnType, qty, reservationId) ==
    [itemId |-> itemId, lotId |-> lotId, txnType |-> txnType, qty |-> qty,
     reservationId |-> reservationId]

\* Database._initialize_sample_data; a receivedDate is a day of February 2024
SampleItems ==
    <<[code |-> "RM-001", qcRequired |-> TRUE],
      [code |-> "RM-002", qcRequired |-> TRUE],
      [code |-> "RM-003", qcRequired |-> FALSE],
      [code |-> "CH-001", qcRequired |-> TRUE],
      [code |-> "PK-001", qcRequired |-> FALSE]>>

SampleLots ==
    <<[itemId |-> 1, receivedQty |-> 1000, qcStatus |-> "APPROVED", receivedDate |-> 10],
      [itemId |-> 2, receivedQty |-> 500, qcStatus |-> "APPROVED", receivedDate |-> 12],
      [itemId |-> 3, receivedQty |-> 2000, qcStatus |-> "APPROVED", receivedDate |-> 13],
      [itemId |-> 1, receivedQty |-> 800, qcStatus |-> "QUARANTINE", receivedDate |-> 15]>>

SampleLedger ==
    [k \in 1..4 |-> ServiceEntry(SampleLots[k].itemId, k, "RECEIVE",
                                 SampleLots[k].receivedQty, Null)]
    \o <<ServiceEntry(1, 1, "RESERVE", 200, 1), ServiceEntry(1, 1, "ISSUE", 150, 1)>>

SampleReservations ==
    <<[itemId |-> 1, allocations |-> <<[lotId |-> 1, qty |-> 200]>>,
       totalQty |-> 200, issuedQty |-> 150, status |-> "PARTIAL"]>>

\* db = Database()
InitService ==
    /\ items = SampleItems
    /\ lots = SampleLots
    /\ ledger = SampleLedger
    /\ reservations = SampleReservations
    /\ conn = [h \in Handlers |-> "none"]
    /\ pc = [h \in Handlers |-> "idle"]
    /\ req = [h \in Handlers |-> NoReq]
    /\ local = [h \in Handlers |-> NoLocal]
    /\ response = NoResponse
    /\ touched = {}

ServiceUnused == UNCHANGED <<conn, pc, req, local, touched>>

\* sum(e.qty for e in item_ledger if e.txnType == t)
ItemLedgerSum(item_id, t) ==
    LET Test(e) == e.itemId = item_id /\ e.txnType = t
    IN  SumQty(SelectSeq(ledger, Test))

\* InventoryService.get_stock_summary, for an item that exists
InventoryService_get_stock_summary(item_id) ==
    LET received == ItemLedgerSum(item_id, "RECEIVE")
        issued == ItemLedgerSum(item_id, "ISSUE")
        reserved == ItemLedgerSum(item_id, "RESERVE")
        unreserved == ItemLedgerSum(item_id, "UNRESERVE")
        reserved_net == reserved - unreserved
        on_hand == received - issued
    IN  [onHand |-> on_hand, reserved |-> reserved_net,
         available |-> on_hand - reserved_net,
         received |-> received, issued |-> issued]

\* sum(e.qty for e in lot_ledger if e.txnType == t)
LotLedgerSum(lot_id, t) ==
    LET Test(e) == e.lotId = lot_id /\ e.txnType = t
    IN  SumQty(SelectSeq(ledger, Test))

\* InventoryService.get_lot_summary, for a lot that exists
InventoryService_get_lot_summary(lot_id) ==
    LET received == LotLedgerSum(lot_id, "RECEIVE")
        reserved == LotLedgerSum(lot_id, "RESERVE")
        unreserved == LotLedgerSum(lot_id, "UNRESERVE")
        issued == LotLedgerSum(lot_id, "ISSUE")
        reserved_net == reserved - unreserved
        on_hand == received - issued
    IN  [received |-> received, reserved |-> reserved_net, issued |-> issued,
         onHand |-> on_hand, available |-> on_hand - reserved_net]

\* [lot for lot in self.db.lots if lot.itemId == itemId and
\*  lot.qcStatus == QCStatus.APPROVED], as lot ids in list order
approved_lots(itemId) ==
    LET Test(l) == lots[l].itemId = itemId /\ lots[l].qcStatus = "APPROVED"
    IN  SelectSeq([k \in 1..Len(lots) |-> k], Test)

RECURSIVE StableSort(_)
\* python's sorted with key receivedDate: ascending, equal keys keep their
\* order in the list
StableSort(s) ==
    IF s = <<>> THEN <<>>
    ELSE LET k == CHOOSE i \in DOMAIN s :
                    /\ \A j \in DOMAIN s :
                          lots[s[i]].receivedDate <= lots[s[j]].receivedDate
                    /\ \A j \in 1..(i - 1) :
                          lots[s[j]].receivedDate > lots[s[i]].receivedDate
         IN  <<s[k]>> \o StableSort(SubSeq(s, 1, k - 1) \o SubSeq(s, k + 1, Len(s)))

\* the loop that walks the lots in the order of the list
InListOrder(s) == s

\* sorted(approved_lots, key=lambda x: x.receivedDate)
SortedByReceivedDate(s) == StableSort(s)

RECURSIVE AllocationLoop(_, _)
\* the FIFO allocation loop of reserve_inventory: the allocations list
AllocationLoop(lotIds, remaining_qty) ==
    IF lotIds = <<>> THEN <<>>
    ELSE LET lot == Head(lotIds)
             available_in_lot == InventoryService_get_lot_summary(lot).available
             takes == available_in_lot > 0 /\ remaining_qty > 0
             alloc_qty == Min(available_in_lot, remaining_qty)
             left == IF takes THEN remaining_qty - alloc_qty ELSE remaining_qty
         IN  (IF takes THEN <<[lotId |-> lot, qty |-> alloc_qty]>> ELSE <<>>)
             \o (IF left = 0 THEN <<>> ELSE AllocationLoop(Tail(lotIds), left))

\* the RESERVE entries of a reservation, in append order
reserve_ledger(led, reservationId) ==
    LET Test(e) == e.reservationId = reservationId /\ e.txnType = "RESERVE"
    IN  SelectSeq(led, Test)

\* sum(e.qty for e in lot_issues)
already_issued(led, lotId, reservationId) ==
    LET Test(e) == /\ e.lotId = lotId
                   /\ e.txnType = "ISSUE"
                   /\ e.reservationId = reservationId
    IN  SumQty(SelectSeq(led, Test))

RECURSIVE IssueEntriesLoop(_, _, _, _)
\* the loop of issue_inventory over the RESERVE entries: the ledger it
\* leaves, which it appends to as it goes, and whether it raised
\* NO_QC_APPROVED_LOT
IssueEntriesLoop(reserves, remaining_qty, led, reservationId) ==
    IF reserves = <<>> \/ remaining_qty = 0 THEN [ledger |-> led, raised |-> FALSE]
    ELSE LET reserve == Head(reserves)
             available_to_issue ==
                 reserve.qty - already_issued(led, reserve.lotId, reservationId)
             issue_qty == Min(available_to_issue, remaining_qty)
         IN  IF lots[reserve.lotId].qcStatus # "APPROVED"
             THEN [ledger |-> led, raised |-> TRUE]
             ELSE IF available_to_issue > 0
             THEN IssueEntriesLoop(Tail(reserves), remaining_qty - issue_qty,
                      Append(led, ServiceEntry(reserve.itemId, reserve.lotId, "ISSUE",
                                               issue_qty, reservationId)),
                      reservationId)
             ELSE IssueEntriesLoop(Tail(reserves), remaining_qty, led, reservationId)

\* InventoryService.add_item
InventoryService_add_item(code, qcRequired) ==
    /\ IF \E i \in DOMAIN items : items[i].code = code
       THEN /\ Respond(1, "add_item", "ITEM_CODE_ALREADY_EXISTS", <<>>)
            /\ UNCHANGED items
       ELSE /\ Len(items) < MaxServiceItems
            /\ items' = Append(items, [code |-> code, qcRequired |-> qcRequired])
            /\ Respond(1, "add_item", "OK", [id |-> Len(items) + 1])
    /\ UNCHANGED <<lots, ledger, reservations>>
    /\ ServiceUnused

\* InventoryService.receive_inventory; now is what datetime.now() returns,
\* the local wall-clock time
InventoryService_receive_inventory(itemId, qty, qcRequired, now) ==
    /\ IF itemId \notin DOMAIN items
       THEN /\ Respond(1, "receive", "ITEM_NOT_FOUND", <<>>)
            /\ UNCHANGED <<lots, ledger>>
       ELSE /\ Len(lots) < MaxServiceLots
            /\ lots' = Append(lots,
                   [itemId |-> itemId, receivedQty |-> qty,
                    qcStatus |-> IF qcRequired THEN "QUARANTINE" ELSE "APPROVED",
                    receivedDate |-> now])
            /\ ledger' = Append(ledger,
                   ServiceEntry(itemId, Len(lots) + 1, "RECEIVE", qty, Null))
            /\ Respond(1, "receive", "OK", [lotId |-> Len(lots) + 1])
    /\ UNCHANGED <<items, reservations>>
    /\ ServiceUnused

\* GET /api/inventory/summary/{item_id}
GetServiceStockSummary(item_id) ==
    /\ IF item_id \notin DOMAIN items
       THEN Respond(1, "summary", "ITEM_NOT_FOUND", <<>>)
       ELSE Respond(1, "summary", "OK", InventoryService_get_stock_summary(item_id))
    /\ UNCHANGED <<items, lots, ledger, reservations>>
    /\ ServiceUnused

\* GET /api/inventory/lot/{lot_id}
GetServiceLotSummary(lot_id) ==
    /\ IF lot_id \notin DOMAIN lots
       THEN Respond(1, "lot_summary", "LOT_NOT_FOUND", <<>>)
       ELSE Respond(1, "lot_summary", "OK", InventoryService_get_lot_summary(lot_id))
    /\ UNCHANGED <<items, lots, ledger, reservations>>
    /\ ServiceUnused

\* InventoryService.reserve_inventory; a refusal is recorded with the
\* arguments of the request
InventoryService_reserve_inventory(itemId, qty) ==
    /\ LET ReserveArgs == [itemId |-> itemId, qty |-> qty] IN
       IF itemId \notin DOMAIN items
       THEN /\ Respond(1, "reserve", "ITEM_NOT_FOUND", ReserveArgs)
            /\ UNCHANGED <<ledger, reservations>>
       ELSE IF InventoryService_get_stock_summary(itemId).available < qty
       THEN /\ Respond(1, "reserve", "INSUFFICIENT_STOCK", ReserveArgs)
            /\ UNCHANGED <<ledger, reservations>>
       ELSE IF approved_lots(itemId) = <<>>
       THEN /\ Respond(1, "reserve", "NO_QC_APPROVED_LOT", ReserveArgs)
            /\ UNCHANGED <<ledger, reservations>>
       ELSE LET allocations ==
                    AllocationLoop(SortedByReceivedDate(approved_lots(itemId)), qty)
                reservation_id == Len(reservations) + 1
            IN  IF qty - SumQty(allocations) > 0
                THEN /\ Respond(1, "reserve", "INSUFFICIENT_APPROVED_STOCK", ReserveArgs)
                     /\ UNCHANGED <<ledger, reservations>>
                ELSE /\ Len(reservations) < MaxServiceReservations
                     /\ ledger' = ledger \o
                            [k \in 1..Len(allocations) |->
                                ServiceEntry(itemId, allocations[k].lotId, "RESERVE",
                                             allocations[k].qty, reservation_id)]
                     /\ reservations' = Append(reservations,
                            [itemId |-> itemId, allocations |-> allocations,
                             totalQty |-> qty, issuedQty |-> 0, status |-> "ACTIVE"])
                     /\ Respond(1, "reserve", "OK",
                                [reservationId |-> reservation_id, itemId |-> itemId,
                                 qty |-> qty, allocations |-> allocations])
    /\ UNCHANGED <<items, lots>>
    /\ ServiceUnused

\* InventoryService.issue_inventory; the ISSUE entries are appended inside
\* the loop, before a later lot's QC status is looked at
InventoryService_issue_inventory(reservationId, qty) ==
    /\ IF reservationId \notin DOMAIN reservations
       THEN /\ Respond(1, "issue", "RESERVATION_NOT_FOUND", [reservationId |-> reservationId])
            /\ UNCHANGED <<ledger, reservations>>
       ELSE IF qty > reservations[reservationId].totalQty
                     - reservations[reservationId].issuedQty
       THEN /\ Respond(1, "issue", "INSUFFICIENT_RESERVED_STOCK",
                       [reservationId |-> reservationId])
            /\ UNCHANGED <<ledger, reservations>>
       ELSE LET run == IssueEntriesLoop(reserve_ledger(ledger, reservationId), qty,
                                        ledger, reservationId)
                issuedQty == reservations[reservationId].issuedQty + qty
            IN  /\ ledger' = run.ledger
                /\ IF run.raised
                   THEN /\ Respond(1, "issue", "NO_QC_APPROVED_LOT",
                                   [reservationId |-> reservationId])
                        /\ UNCHANGED reservations
                   ELSE /\ reservations' =
                              [reservations EXCEPT
                                 ![reservationId].issuedQty = issuedQty,
                                 ![reservationId].status =
                                     IF issuedQty >= reservations[reservationId].totalQty
                                     THEN "COMPLETED" ELSE "PARTIAL"]
                        /\ Respond(1, "issue", "OK",
                                   [reservationId |-> reservationId, qty |-> qty,
                                    issues |-> SubSeq(run.ledger, Len(ledger) + 1,
                                                      Len(run.ledger))])
    /\ UNCHANGED <<items, lots>>
    /\ ServiceUnused

\* InventoryService.update_qc_status: status is any QCStatus
InventoryService_update_qc_status(lotId, status) ==
    /\ IF lotId \notin DOMAIN lots
       THEN /\ Respond(1, "update_qc", "LOT_NOT_FOUND", <<>>)
            /\ UNCHANGED lots
       ELSE /\ lots' = [lots EXCEPT ![lotId].qcStatus = status]
            /\ Respond(1, "update_qc", "OK", [lotId |-> lotId, status |-> status])
    /\ UNCHANGED <<items, ledger, reservations>>
    /\ ServiceUnused

\* SpecService: the sample data, then requests for the sample item 5, which
\* has no lot yet, for ids that do not exist, and issues on every reservation,
\* the sample reservation of item 1 included.
ServiceItemCodes == {"RM-001", "NEW-001"}
ServiceReceiveItemIds == {5, 7}
ServiceReserveItemIds == {5, 7}
ServiceReceiveQtys == {30}
ServiceDates == {20, 21}
ServiceReserveQtys == {30, 50}
ServiceIssueQtys == {30, 50}
ServiceLotIds == {5, 6, 7}
ServiceReservationIds == 1..(MaxServiceReservations + 1)

NextService ==
    \/ \E code \in ServiceItemCodes : InventoryService_add_item(code, FALSE)
    \/ \E i \in ServiceReceiveItemIds, q \in ServiceReceiveQtys, qc \in BOOLEAN,
          now \in ServiceDates : InventoryService_receive_inventory(i, q, qc, now)
    \/ \E i \in ServiceReserveItemIds : GetServiceStockSummary(i)
    \/ \E l \in ServiceLotIds : GetServiceLotSummary(l)
    \/ \E i \in ServiceReserveItemIds, q \in ServiceReserveQtys :
          InventoryService_reserve_inventory(i, q)
    \/ \E r \in ServiceReservationIds, q \in ServiceIssueQtys :
          InventoryService_issue_inventory(r, q)
    \/ \E l \in ServiceLotIds, s \in QcStatuses : InventoryService_update_qc_status(l, s)

SpecService == InitService /\ [][NextService]_vars

ServiceTypeOK ==
    /\ \A l \in DOMAIN lots : lots[l].qcStatus \in QcStatuses
    /\ \A k \in DOMAIN ledger : ledger[k].txnType \in TxnTypes
    /\ \A r \in DOMAIN reservations : reservations[r].status \in ServiceStatuses

\* ------------------------------ services.py, views.py: the Django service
\* In SpecDjango items, lots and ledger hold the rows of the Item,
\* InventoryLot and InventoryLedger tables in primary-key order; a row's id
\* is its position. Calls do not overlap: each is one step, and a call that
\* raises inside transaction.atomic leaves no row behind. touched records
\* the calls of reserve_inventory and issue_inventory made so far, each
\* with its operation, its idempotency key and its outcome. reservations,
\* conn, pc, req and local keep their initial values.
MaxDjangoLots == 2
MaxDjangoRows == 5

\* idempotency keys are sequences of text pieces, so that
\* idempotencyKey + "_UNRESERVE" is the key with one more piece
UnreserveKey(idempotencyKey) == idempotencyKey \o <<"_UNRESERVE">>

\* str(uuid.uuid4()): a key no other row has
UuidKey(n) == <<"uuid", n>>

\* InventoryLedger.objects.create(item, lot, txnType, qty, idempotencyKey)
DjangoEntry(item, lot, txnType, qty, idempotencyKey) ==
    [itemId |-> item, lotId |-> lot, txnType |-> txnType, qty |-> qty,
     idempotencyKey |-> idempotencyKey]

\* the Item table is filled outside these sources (Django admin): one item
\* without and one with qcRequired
DjangoItems ==
    <<[code |-> "BOLT", qcRequired |-> FALSE], [code |-> "STEEL", qcRequired |-> TRUE]>>

InitDjango ==
    /\ items = DjangoItems
    /\ lots = <<>>
    /\ ledger = <<>>
    /\ reservations = <<>>
    /\ conn = [h \in Handlers |-> "none"]
    /\ pc = [h \in Handlers |-> "idle"]
    /\ req = [h \in Handlers |-> NoReq]
    /\ local = [h \in Handlers |-> NoLocal]
    /\ response = NoResponse
    /\ touched = {}

DjangoUnused == UNCHANGED <<items, reservations, conn, pc, req, local>>

\* InventoryLedger.objects.filter(item=item, txnType=t).aggregate(Sum("qty"))
\* ["qty__sum"] or 0
DjangoLedgerSum(item, t) ==
    LET Test(e) == e.itemId = item /\ e.txnType = t
    IN  SumQty(SelectSeq(ledger, Test))

\* services.get_stock_summary
services_get_stock_summary(item) ==
    LET received == DjangoLedgerSum(item, "RECEIVE")
        issued == DjangoLedgerSum(item, "ISSUE")
        reserved == DjangoLedgerSum(item, "RESERVE") - DjangoLedgerSum(item, "UNRESERVE")
        onHand == received - issued
    IN  [onHand |-> onHand, reserved |-> reserved, available |-> onHand - reserved]

\* InventoryLedger.objects.filter(idempotencyKey=idempotencyKey).exists()
KeyExists(idempotencyKey) ==
    \E k \in DOMAIN ledger : ledger[k].idempotencyKey = idempotencyKey

\* InventoryLot.objects.filter(item=item, qcStatus="APPROVED").first():
\* the lot of least id, Null if there is none
FirstApprovedLot(item) ==
    LET S == {l \in DOMAIN lots : lots[l].itemId = item /\ lots[l].qcStatus = "APPROVED"}
    IN  IF S = {} THEN Null ELSE CHOOSE l \in S : \A m \in S : l <= m

\* the record of a call in touched
Called(op, idempotencyKey, code) ==
    touched' = touched \cup {[op |-> op, key |-> idempotencyKey, code |-> code]}

\* views.receive_inventory: a lot and its RECEIVE row under a fresh key
views_receive_inventory(item, qty) ==
    /\ Len(lots) < MaxDjangoLots
    /\ lots' = Append(lots,
           [itemId |-> item, receivedQty |-> qty,
            qcStatus |-> IF items[item].qcRequired THEN "QUARANTINE" ELSE "APPROVED"])
    /\ ledger' = Append(ledger,
           DjangoEntry(item, Len(lots) + 1, "RECEIVE", qty, UuidKey(Len(lots) + 1)))
    /\ Respond(1, "receive", "RECEIVED", <<>>)
    /\ UNCHANGED touched
    /\ DjangoUnused

\* views.stock_summary
views_stock_summary(item) ==
    /\ Respond(1, "summary", "OK", services_get_stock_summary(item))
    /\ UNCHANGED <<lots, ledger, touched>>
    /\ DjangoUnused

\* services.reserve_inventory
services_reserve_inventory(item, qty, idempotencyKey) ==
    /\ LET Done(code) == /\ Respond(1, "reserve", code, [key |-> idempotencyKey])
                         /\ Called("reserve", idempotencyKey, code)
       IN  IF KeyExists(idempotencyKey)
           THEN Done("IDEMPOTENT_REPLAY") /\ UNCHANGED ledger
           ELSE IF services_get_stock_summary(item).available < qty
           THEN Done("INSUFFICIENT_STOCK") /\ UNCHANGED ledger
           ELSE IF FirstApprovedLot(item) = Null
           THEN Done("NO_QC_APPROVED_LOT") /\ UNCHANGED ledger
           ELSE /\ Len(ledger) < MaxDjangoRows
                /\ ledger' = Append(ledger,
                       DjangoEntry(item, FirstApprovedLot(item), "RESERVE", qty,
                                   idempotencyKey))
                /\ Done("OK")
    /\ UNCHANGED lots
    /\ DjangoUnused

\* services.issue_inventory; the UNRESERVE row's key may be taken, and the
\* IntegrityError then rolls the ISSUE row back
services_issue_inventory(item, qty, idempotencyKey) ==
    /\ LET Done(code) == /\ Respond(1, "issue", code, [key |-> idempotencyKey])
                         /\ Called("issue", idempotencyKey, code)
       IN  IF KeyExists(idempotencyKey)
           THEN Done("IDEMPOTENT_REPLAY") /\ UNCHANGED ledger
           ELSE IF services_get_stock_summary(item).reserved < qty
           THEN Done("RESERVATION_NOT_FOUND") /\ UNCHANGED ledger
           ELSE IF FirstApprovedLot(item) = Null
           THEN Done("NO_QC_APPROVED_LOT") /\ UNCHANGED ledger
           ELSE IF KeyExists(UnreserveKey(idempotencyKey))
           THEN Done("IntegrityError") /\ UNCHANGED ledger
           ELSE /\ Len(ledger) + 1 < MaxDjangoRows
                /\ ledger' = ledger \o
                       <<DjangoEntry(item, FirstApprovedLot(item), "ISSUE", qty,
                                     idempotencyKey),
                         DjangoEntry(item, FirstApprovedLot(item), "UNRESERVE", qty,
                                     UnreserveKey(idempotencyKey))>>
                /\ Done("OK")
    /\ UNCHANGED lots
    /\ DjangoUnused

\* SpecDjango: two items, lots and requests of one quantity, and two keys,
\* one of them the other with "_UNRESERVE" added.
DjangoItemIds == {1, 2}
DjangoQtys == {30}
DjangoKeys == {<<"k1">>, <<"k1", "_UNRESERVE">>}

NextDjango ==
    \/ \E i \in DjangoItemIds, q \in DjangoQtys : views_receive_inventory(i, q)
    \/ \E i \in DjangoItemIds : views_stock_summary(i)
    \/ \E i \in DjangoItemIds, q \in DjangoQtys, k \in DjangoKeys :
          services_reserve_inventory(i, q, k)
    \/ \E i \in DjangoItemIds, q \in DjangoQtys, k \in DjangoKeys :
          services_issue_inventory(i, q, k)

SpecDjango == InitDjango /\ [][NextDjango]_vars

\* ------------------------------------------------------------- claims
RECURSIVE SumReservations(_)
\* the quantities of a set of reservations, added up
SumReservations(S) ==
    IF S = {} THEN 0
    ELSE LET r == CHOOSE x \in S : TRUE
         IN  reservations[r].qty + SumReservations(S \ {r})

OpenReservationsOf(item_id) ==
    {r \in DOMAIN reservations :
        reservations[r].item_id = item_id /\ reservations[r].status = "OPEN"}

\* C1: for every item, in every reachable state, the summary's available is
\* on_hand minus the quantities of the item's OPEN reservations, and it is
\* never negative.
C1_AvailableNeverNegative ==
    \A i \in DOMAIN items :
        LET summary == calculate_stock(i)
        IN  /\ summary.available = summary.on_hand - SumReservations(OpenReservationsOf(i))
            /\ summary.available >= 0

\* C1 witness: an item whose stock is reserved to the last unit by an OPEN
\* reservation after an earlier reservation was issued.
C1_Witness ==
    \E i \in DOMAIN items :
        /\ calculate_stock(i).available = 0
        /\ calculate_stock(i).reserved > 0
        /\ LedgerSumItem(i, "ISSUE") > 0

\* C2: of the available quantity an item had when a reserve request arrived,
\* the reserve requests granted since then (the request itself included, once
\* it has passed its checks) never take more than that quantity, given that no
\* stock was received for the item in between.
C2_NoOvercommit ==
    \A h \in Handlers :
        (req[h].op = "reserve" /\ local[h].clean) =>
            /\ local[h].granted <= local[h].avail0
            /\ pc[h] = "write" => local[h].granted + req[h].qty <= local[h].avail0

\* C2 witness: a reserve request holds the lock and is about to be refused,
\* because a request that arrived after it was granted the stock first.
C2_Witness ==
    \E h \in Handlers :
        /\ req[h].op = "reserve"
        /\ pc[h] = "check"
        /\ local[h].clean
        /\ local[h].granted > 0
        /\ req[h].qty <= local[h].avail0
        /\ local[h].granted + req[h].qty > local[h].avail0

\* a handler takes the step that follows the statement it is at
Moves(h) == pc'[h] # pc[h]

\* h's request is an issue of an existing reservation that is ISSUED
IssuesIssued(h) ==
    /\ req[h].op = "issue"
    /\ req[h].reservation_id \in DOMAIN reservations
    /\ reservations[req[h].reservation_id].status = "ISSUED"

\* C3: an issue request for a reservation that is ISSUED is answered with
\* RESERVATION_ALREADY_ISSUED when it reaches the status check, and no step
\* of such a request changes the ledger, a reservation or a lot.
C3_SecondIssueRefused ==
    [][\A h \in Handlers :
          /\ (IssuesIssued(h) /\ Moves(h)) =>
                 UNCHANGED <<items, lots, ledger, reservations>>
          /\ (IssuesIssued(h) /\ pc[h] = "check" /\ Moves(h)) =>
                 /\ pc'[h] = "idle"
                 /\ response' = [h |-> h, op |-> "issue",
                                 code |-> "RESERVATION_ALREADY_ISSUED", body |-> <<>>]
      ]_vars

\* C3 witness: an issue of an ISSUED reservation was refused.
C3_Witness ==
    /\ response.op = "issue"
    /\ response.code = "RESERVATION_ALREADY_ISSUED"
    /\ \E r \in DOMAIN reservations : reservations[r].status = "ISSUED"

\* what a lot has left: received minus issued
LotAvailable(l) == lots[l].received_qty - LotIssuedQty(l)

\* the response sent last is a successful issue
IssueDone == response.op = "issue" /\ response.code = "OK"

\* C4: an issue never draws from a lot while an APPROVED lot of the same item
\* that was received earlier still has quantity left.
C4_EarliestReceivedFirst ==
    IssueDone =>
        \A k \in DOMAIN response.body.lots_issued :
            \A l \in DOMAIN lots :
                (/\ l < response.body.lots_issued[k].lot_id
                 /\ lots[l].item_id = response.body.item_id
                 /\ lots[l].qc_status = "APPROVED") => LotAvailable(l) = 0

\* the lots and the result of test_multiple_lots_fifo_issuing
FifoLots ==
    <<[item_id |-> 1, lot_code |-> LotA, received_qty |-> 30, qc_status |-> "APPROVED"],
      [item_id |-> 1, lot_code |-> LotB, received_qty |-> 40, qc_status |-> "APPROVED"],
      [item_id |-> 1, lot_code |-> LotC, received_qty |-> 30, qc_status |-> "APPROVED"]>>

FifoResult ==
    <<[lot_id |-> 1, lot_code |-> LotA, qty |-> 30],
      [lot_id |-> 2, lot_code |-> LotB, qty |-> 40],
      [lot_id |-> 3, lot_code |-> LotC, qty |-> 10]>>

C6_IssueOnlyFromApproved ==
    [][\A e \in BagToSet(ledger') :
          (e.txn_type = "ISSUE" /\ CopiesIn(e, ledger') > CopiesIn(e, ledger)) =>
              /\ e.lot_id \in DOMAIN lots
              /\ lots[e.lot_id].qc_status = "APPROVED"
              /\ lots'[e.lot_id].qc_status = "APPROVED"
      ]_vars

\* C6 witness: an issue has just drawn from an item that also holds a lot
\* with stock that is not APPROVED.
C6_Witness ==
    /\ IssueDone
    /\ \E l \in DOMAIN lots :
          /\ lots[l].item_id = response.body.item_id
          /\ lots[l].qc_status # "APPROVED"
          /\ LotAvailable(l) > 0

\* the item has lots and every one of them is in QUARANTINE
AllQuarantine(item_id) ==
    /\ \E l \in DOMAIN lots : lots[l].item_id = item_id
    /\ \A l \in DOMAIN lots : lots[l].item_id = item_id => lots[l].qc_status = "QUARANTINE"

\* a reserve of qty on the item passes the checks of reserve_inventory
ReservePasses(item_id, qty) ==
    /\ ItemExists(item_id)
    /\ calculate_stock(item_id).available >= qty
    /\ \E l \in DOMAIN lots :
          /\ lots[l].item_id = item_id
          /\ lots[l].qc_status = "APPROVED"
          /\ LotAvailable(l) > 0

\* C7: a lot received for an item with qc_required starts in QUARANTINE; while
\* all lots of such an item are in QUARANTINE, a reserve of no more than was
\* received is answered NO_QC_APPROVED_LOT and creates nothing; once
\* updateLotQcStatus has set a lot to APPROVED, a reserve of no more than was
\* received passes the checks, and a reserve that passes them creates
\* an OPEN reservation.
C7_QcGating ==
    [][\A h \in Handlers :
          /\ (/\ pc[h] = "write" /\ req[h].op = "receive" /\ Moves(h)
              /\ Len(lots') = Len(lots) + 1
              /\ items[req[h].item_id].qc_required)
                 => lots'[Len(lots')].qc_status = "QUARANTINE"
          /\ (/\ pc[h] = "check" /\ req[h].op = "reserve" /\ Moves(h)
              /\ ItemExists(req[h].item_id)
              /\ items[req[h].item_id].qc_required
              /\ AllQuarantine(req[h].item_id)
              /\ req[h].qty <= LedgerSumItem(req[h].item_id, "RECEIVE"))
                 => /\ pc'[h] = "idle"
                    /\ response' = [h |-> h, op |-> "reserve",
                                    code |-> "NO_QC_APPROVED_LOT", body |-> <<>>]
                    /\ UNCHANGED <<items, lots, ledger, reservations>>
          /\ \A l \in DOMAIN lots, i \in DOMAIN items :
                (/\ pc[h] = "body" /\ req[h].op = "update_qc" /\ Moves(h)
                 /\ req[h].lot_id = l
                 /\ lots[l].item_id = i
                 /\ req[h].qc_status = "APPROVED"
                 /\ items[i].qc_required
                 /\ AllQuarantine(i))
                   => \A q \in 1..LedgerSumItem(i, "RECEIVE") : ReservePasses(i, q)'
          /\ (/\ pc[h] = "check" /\ req[h].op = "reserve" /\ Moves(h)
              /\ ReservePasses(req[h].item_id, req[h].qty))
                 => pc'[h] = "write"
          /\ (pc[h] = "write" /\ req[h].op = "reserve" /\ Moves(h))
                 => /\ response'.op = "reserve" /\ response'.code = "OK"
                    /\ reservations' = Append(reservations,
                          [item_id |-> req[h].item_id, qty |-> req[h].qty,
                           status |-> "OPEN"])
      ]_vars

\* C7 witness: a reserve on an item with qc_required has succeeded, which
\* takes a lot that was received into QUARANTINE and then set to APPROVED.
C7_Witness ==
    /\ response.op = "reserve"
    /\ response.code = "OK"
    /\ items[response.body.item_id].qc_required
    /\ \E l \in DOMAIN lots :
          lots[l].item_id = response.body.item_id /\ lots[l].qc_status = "QUARANTINE"

\* C8: a reserve that passes its checks is covered by the quantity left in
\* the item's APPROVED lots (a reserve for more than that is refused).
C8_ReserveCoveredByApproved ==
    \A h \in Handlers :
        (pc[h] = "write" /\ req[h].op = "reserve") =>
            SumAvailable(get_available_lots(req[h].item_id)) >= req[h].qty

\* C9: an issue of an OPEN reservation that has seen no updateLotQcStatus
\* call since it was created passes the checks of issue_inventory.
C9_UntouchedReservationIssues ==
    [][\A h \in Handlers :
          (/\ pc[h] = "check" /\ req[h].op = "issue" /\ Moves(h)
           /\ req[h].reservation_id \in DOMAIN reservations
           /\ reservations[req[h].reservation_id].status = "OPEN"
           /\ req[h].reservation_id \notin touched)
              => pc'[h] = "write"
      ]_vars

\* C10: a successful reserve of q leaves on_hand, raises reserved by q and
\* lowers available by q; a successful issue of a reservation of q lowers
\* on_hand and reserved by q and leaves available; a reserve for more than
\* available is answered INSUFFICIENT_STOCK and changes nothing.
C10_SummaryDeltas ==
    [][\A h \in Handlers, i \in DOMAIN items, q \in 1..100 :
          /\ (/\ pc[h] = "write" /\ req[h].op = "reserve" /\ Moves(h)
              /\ req[h].item_id = i /\ req[h].qty = q) =>
                /\ response'.code = "OK"
                /\ calculate_stock(i)'.on_hand = calculate_stock(i).on_hand
                /\ calculate_stock(i)'.reserved = calculate_stock(i).reserved + q
                /\ calculate_stock(i)'.available = calculate_stock(i).available - q
          /\ (/\ pc[h] = "write" /\ req[h].op = "issue" /\ Moves(h)
              /\ reservations[req[h].reservation_id].item_id = i
              /\ reservations[req[h].reservation_id].qty = q) =>
                /\ response'.code = "OK"
                /\ calculate_stock(i)'.on_hand = calculate_stock(i).on_hand - q
                /\ calculate_stock(i)'.reserved = calculate_stock(i).reserved - q
                /\ calculate_stock(i)'.available = calculate_stock(i).available
          /\ (/\ pc[h] = "check" /\ req[h].op = "reserve" /\ Moves(h)
              /\ req[h].item_id = i /\ req[h].qty = q
              /\ q > calculate_stock(i).available) =>
                /\ pc'[h] = "idle"
                /\ response' = [h |-> h, op |-> "reserve",
                                code |-> "INSUFFICIENT_STOCK", body |-> <<>>]
                /\ UNCHANGED <<items, lots, ledger, reservations>>
      ]_vars

\* C10 witness: 100 received, 30 reserved and issued: the summary after the
\* issue is {on_hand 70, reserved 0, available 70}.
C10_Witness ==
    /\ IssueDone
    /\ response.body.qty = 30
    /\ LedgerSumItem(response.body.item_id, "RECEIVE") = 100
    /\ calculate_stock(response.body.item_id) =
          [on_hand |-> 70, reserved |-> 0, available |-> 70]

\* the ledger rows of an item
LedgerOf(item_id) == {e \in BagToSet(ledger) : e.item_id = item_id}

\* C11: for every item, the on_hand of its summary is the sum of its RECEIVE
\* entries minus the sum of its ISSUE entries, 0 when the item has no ledger
\* entry; a summary that getStockSummary has answered is that of an item.
C11_OnHandFromLedger ==
    /\ \A i \in DOMAIN items :
          /\ calculate_stock(i).on_hand =
                SumRows({e \in LedgerOf(i) : e.txn_type = "RECEIVE"}, ledger)
                - SumRows({e \in LedgerOf(i) : e.txn_type = "ISSUE"}, ledger)
          /\ LedgerOf(i) = {} => calculate_stock(i).on_hand = 0
    /\ (response.op = "summary" /\ response.code = "OK") =>
          \E i \in DOMAIN items : response.body = calculate_stock(i)

\* C11 witness: getStockSummary has answered for an item with stock left
\* after part of what was received has been issued.
C11_Witness ==
    /\ response.op = "summary"
    /\ response.code = "OK"
    /\ response.body.on_hand > 0
    /\ \E i \in DOMAIN items :
          /\ response.body = calculate_stock(i)
          /\ LedgerSumItem(i, "ISSUE") > 0

\* C12: no two lots share a lot code, whatever their items; a receive whose
\* lot code exists, for the same or another item, is answered
\* DUPLICATE_LOT_CODE and leaves the lots and the ledger as they were.
C12_LotCodesUnique ==
    [][/\ \A l1, l2 \in DOMAIN lots' :
             lots'[l1].lot_code = lots'[l2].lot_code => l1 = l2
       /\ \A h \in Handlers :
             (/\ pc[h] = "write" /\ req[h].op = "receive" /\ Moves(h)
              /\ \E l \in DOMAIN lots : lots[l].lot_code = req[h].lot_code)
                 => /\ response' = [h |-> h, op |-> "receive",
                                    code |-> "DUPLICATE_LOT_CODE", body |-> <<>>]
                    /\ UNCHANGED <<items, lots, ledger, reservations>>
      ]_vars

\* C12 witness: a receive for one item, with the lot code of a lot of the
\* other item, holds the lock and is about to be refused.
C12_Witness ==
    \E h \in Handlers :
        /\ pc[h] = "write"
        /\ req[h].op = "receive"
        /\ \E l \in DOMAIN lots :
              /\ lots[l].lot_code = req[h].lot_code
              /\ lots[l].item_id # req[h].item_id

\* the ledger rows of one type tagged with a reservation
TaggedRows(r, t) ==
    {e \in BagToSet(ledger) : e.reservation_id = r /\ e.txn_type = t}

\* C13: every ISSUED reservation has ISSUE entries tagged with its id, on its
\* item, that add up to its qty, and exactly one UNRESERVE entry tagged with
\* its id, for its qty; an OPEN reservation has neither.
C13_IssuedReservationEntries ==
    \A r \in DOMAIN reservations :
        /\ reservations[r].status = "ISSUED" =>
              /\ SumRows(TaggedRows(r, "ISSUE"), ledger) = reservations[r].qty
              /\ \A e \in TaggedRows(r, "ISSUE") :
                    e.item_id = reservations[r].item_id /\ e.lot_id \in DOMAIN lots
              /\ TaggedRows(r, "UNRESERVE") =
                    {LedgerRow(reservations[r].item_id, Null, "UNRESERVE",
                               reservations[r].qty, r)}
              /\ \A e \in TaggedRows(r, "UNRESERVE") : CopiesIn(e, ledger) = 1
        /\ reservations[r].status = "OPEN" =>
              /\ TaggedRows(r, "ISSUE") = {}
              /\ TaggedRows(r, "UNRESERVE") = {}

\* C13 witness: a reservation was issued from two lots while another
\* reservation is still OPEN.
C13_Witness ==
    \E r, o \in DOMAIN reservations :
        /\ reservations[r].status = "ISSUED"
        /\ Cardinality(TaggedRows(r, "ISSUE")) = 2
        /\ reservations[o].status = "OPEN"

\* C14: for every item, the reserved quantity read from the ledger (RESERVE
\* entries minus UNRESERVE entries) is the reserved quantity of the summary,
\* which is read from the OPEN rows of the reservations table.
C14_ReservedLedgerAgrees ==
    \A i \in DOMAIN items :
        SumRows({e \in LedgerOf(i) : e.txn_type = "RESERVE"}, ledger)
        - SumRows({e \in LedgerOf(i) : e.txn_type = "UNRESERVE"}, ledger)
            = calculate_stock(i).reserved

\* C14 witness: one item's reservation was issued while another item has an
\* OPEN reservation.
C14_Witness ==
    \E i, j \in DOMAIN items :
        /\ i # j
        /\ LedgerSumItem(i, "UNRESERVE") > 0
        /\ calculate_stock(i).reserved = 0
        /\ calculate_stock(j).reserved > 0

\* C15: a step adds reservations only with status OPEN, removes none,
\* changes a status only from OPEN to ISSUED or CANCELLED, and changes no
\* reservation's item or qty.
C15_ReservationLifecycle ==
    [][/\ Len(reservations') >= Len(reservations)
       /\ \A r \in DOMAIN reservations :
             /\ reservations'[r].item_id = reservations[r].item_id
             /\ reservations'[r].qty = reservations[r].qty
             /\ reservations'[r].status # reservations[r].status =>
                   /\ reservations[r].status = "OPEN"
                   /\ reservations'[r].status \in {"ISSUED", "CANCELLED"}
       /\ \A r \in DOMAIN reservations' \ DOMAIN reservations :
             reservations'[r].status = "OPEN"
      ]_vars

\* C15 witness: a reservation is ISSUED and a further issue request for it
\* holds the lock, at the status check.
C15_Witness ==
    \E h \in Handlers :
        /\ pc[h] = "check"
        /\ IssuesIssued(h)

\* C16: a step changes a lot's qc_status only from QUARANTINE, to APPROVED or
\* to REJECTED; the status of an APPROVED or REJECTED lot never changes, so a
\* REJECTED lot never becomes eligible.
C16_QcStatusTerminal ==
    [][\A l \in DOMAIN lots :
          /\ lots'[l].qc_status # lots[l].qc_status =>
                /\ lots[l].qc_status = "QUARANTINE"
                /\ lots'[l].qc_status \in {"APPROVED", "REJECTED"}
          /\ lots[l].qc_status = "REJECTED" => lots'[l].qc_status # "APPROVED"
      ]_vars

\* C17: every step, of a successful or a failed operation, leaves every
\* ledger entry in place, as often as it occurred and with the same item,
\* lot, type, qty and reservation reference; entries are only added.
C17_LedgerAppendOnly ==
    [][ledger \sqsubseteq ledger']_vars

\* C17 witness: the ledger holds entries of the four types and the last
\* operation was refused.
C17_Witness ==
    /\ \A t \in TxnTypes : \E e \in BagToSet(ledger) : e.txn_type = t
    /\ response.code \in {"RESERVATION_ALREADY_ISSUED", "INSUFFICIENT_STOCK",
                          "DUPLICATE_LOT_CODE", "INTERNAL_ERROR"}

\* each lot has exactly one RECEIVE entry, for its item and its received_qty,
\* and every RECEIVE entry is that of a lot
OneReceivePerLot ==
    /\ \A l \in DOMAIN lots :
          /\ {e \in BagToSet(ledger) : e.txn_type = "RECEIVE" /\ e.lot_id = l} =
                {LedgerRow(lots[l].item_id, l, "RECEIVE", lots[l].received_qty, Null)}
          /\ CopiesIn(LedgerRow(lots[l].item_id, l, "RECEIVE", lots[l].received_qty, Null),
                      ledger) = 1
    /\ \A e \in BagToSet(ledger) : e.txn_type = "RECEIVE" => e.lot_id \in DOMAIN lots

\* C18: after every step each lot has exactly one RECEIVE entry, for the
\* lot's item and received_qty, and every RECEIVE entry refers to a lot; a
\* lot is created in QUARANTINE when its item has qc_required and APPROVED
\* otherwise.
C18_OneReceivePerLot ==
    [][/\ OneReceivePerLot'
       /\ \A l \in DOMAIN lots' \ DOMAIN lots :
             /\ lots'[l].item_id \in DOMAIN items
             /\ lots'[l].qc_status =
                   IF items[lots'[l].item_id].qc_required THEN "QUARANTINE" ELSE "APPROVED"
      ]_vars

\* C18 witness: the second lot of an item with qc_required was received into
\* QUARANTINE after the first one was approved and partly issued.
C18_Witness ==
    /\ response.op = "receive"
    /\ response.code = "OK"
    /\ response.body.qc_status = "QUARANTINE"
    /\ Len(lots) = 2
    /\ LotIssuedQty(1) > 0

\* the error codes of the four inventory endpoints
ErrorCodes ==
    {"ITEM_NOT_FOUND", "LOT_NOT_FOUND", "RESERVATION_NOT_FOUND", "DUPLICATE_LOT_CODE",
     "INSUFFICIENT_STOCK", "NO_QC_APPROVED_LOT", "RESERVATION_ALREADY_ISSUED",
     "INTERNAL_ERROR"}

\* C19: a receive, reserve, issue or QC call that is answered with an error
\* has changed nothing: the step that answers the error leaves items, lots,
\* ledger and reservations as they were, and a step that changes lots,
\* ledger or reservations is the last step of its call and answers OK.
C19_ErrorsChangeNothing ==
    [][/\ (/\ response'.op \in {"receive", "reserve", "issue", "update_qc"}
           /\ response'.code \in ErrorCodes) =>
             UNCHANGED <<items, lots, ledger, reservations>>
       /\ ~UNCHANGED <<lots, ledger, reservations>> =>
             /\ response'.code = "OK"
             /\ response'.h \in Handlers
             /\ pc[response'.h] \in {"write", "body"}
             /\ pc'[response'.h] = "idle"
      ]_vars

\* C19 witness: an issue of an OPEN reservation was answered INTERNAL_ERROR,
\* and the reservation is still OPEN.
C19_Witness ==
    /\ response.op = "issue"
    /\ response.code = "INTERNAL_ERROR"
    /\ OpenReservations # {}
    /\ ledger # EmptyBag

\* the item a request in flight works on, Null if it names none that exists
ReqItem(h) ==
    IF req[h].op \in {"receive", "reserve"} /\ ItemExists(req[h].item_id)
    THEN req[h].item_id
    ELSE IF req[h].op = "issue" /\ req[h].reservation_id \in DOMAIN reservations
    THEN reservations[req[h].reservation_id].item_id
    ELSE Null

\* C20: a receive, reserve or issue that waits to start its transaction can
\* start it whenever the only request inside a transaction is a reserve or
\* issue on a different item.
C20_OtherItemsNotBlocked ==
    \A h, g \in Handlers :
        (/\ h # g
         /\ pc[h] = "begin" /\ conn[h] = "none"
         /\ pc[g] \in {"check", "write"} /\ req[g].op \in {"reserve", "issue"}
         /\ ReqItem(h) # Null /\ ReqItem(g) # Null
         /\ ReqItem(h) # ReqItem(g))
            => ENABLED BeginImmediate(h)

RECURSIVE SumLotAvailable(_)
\* what a set of lots has left, added up
SumLotAvailable(S) ==
    IF S = {} THEN 0
    ELSE LET l == CHOOSE x \in S : TRUE
         IN  LotAvailable(l) + SumLotAvailable(S \ {l})

\* what the APPROVED lots of an item have left
ApprovedStock(item_id) ==
    SumLotAvailable({l \in DOMAIN lots :
                        lots[l].item_id = item_id /\ lots[l].qc_status = "APPROVED"})

\* C21: an issue of an OPEN reservation whose qty the item's APPROVED lots do
\* not cover is answered NO_QC_APPROVED_LOT (they hold nothing) or
\* INSUFFICIENT_STOCK (they hold too little); nothing is appended, the
\* reservation stays OPEN and the item's reserved quantity stays the same.
C21_UncoveredIssueRefused ==
    [][\A h \in Handlers, r \in DOMAIN reservations :
          (/\ pc[h] = "check" /\ req[h].op = "issue" /\ Moves(h)
           /\ req[h].reservation_id = r
           /\ reservations[r].status = "OPEN"
           /\ ApprovedStock(reservations[r].item_id) < reservations[r].qty)
              => /\ pc'[h] = "idle"
                 /\ response' = [h |-> h, op |-> "issue",
                                 code |-> IF ApprovedStock(reservations[r].item_id) = 0
                                          THEN "NO_QC_APPROVED_LOT"
                                          ELSE "INSUFFICIENT_STOCK",
                                 body |-> <<>>]
                 /\ UNCHANGED <<items, lots, ledger, reservations>>
                 /\ OpenReservedQty(reservations[r].item_id) >= reservations[r].qty
      ]_vars

\* C21 witness: an issue was refused with NO_QC_APPROVED_LOT after the lot
\* behind an OPEN reservation was set to REJECTED.
C21_Witness ==
    /\ response.op = "issue"
    /\ response.code = "NO_QC_APPROVED_LOT"
    /\ OpenReservations # {}
    /\ \E l \in DOMAIN lots : lots[l].qc_status = "REJECTED" /\ LotAvailable(l) > 0

\* C22: a request whose BEGIN IMMEDIATE cannot get the write lock, because
\* another connection holds it, is answered with a Busy/Conflict error that
\* is not the internal error, and changes nothing.
C22_BusyIsRetryable ==
    [][\A h \in Handlers :
          (/\ pc[h] = "begin" /\ conn[h] = "none" /\ Moves(h)
           /\ \E g \in Handlers \ {h} : conn[g] = "write")
              => /\ response'.h = h
                 /\ response'.code \in {"BUSY", "CONFLICT"}
                 /\ response'.code # "INTERNAL_ERROR"
                 /\ UNCHANGED <<items, lots, ledger, reservations>>
      ]_vars

\* C23: a handler that has started a transaction with BEGIN IMMEDIATE has
\* ended it, by commit or rollback, when it returns: its connection then
\* holds no open transaction and no write lock.
C23_TransactionEndedOnReturn ==
    [][\A h \in Handlers :
          (pc[h] \in {"check", "write", "body"} /\ pc'[h] = "idle")
              => conn'[h] = "none"
      ]_vars

\* the quantity of the ISSUE entries tagged with a reservation
IssuedFor(r) == SumRows(TaggedRows(r, "ISSUE"), ledger)

\* another handler has an issue request for the same reservation in flight
IssueRace(h, r) ==
    /\ req[h].op = "issue" /\ req[h].reservation_id = r
    /\ \E g \in Handlers \ {h} : req[g].op = "issue" /\ req[g].reservation_id = r

C25_ReserveCheckOrder ==
    [][\A h \in Handlers, i \in ItemIds, q \in 1..100 :
          (/\ pc[h] = "check" /\ req[h].op = "reserve" /\ Moves(h)
           /\ req[h].item_id = i /\ req[h].qty = q) =>
              IF i \notin DOMAIN items
              THEN pc'[h] = "idle" /\ response'.code = "ITEM_NOT_FOUND"
              ELSE LET available ==
                         SumRows({e \in LedgerOf(i) : e.txn_type = "RECEIVE"}, ledger)
                         - SumRows({e \in LedgerOf(i) : e.txn_type = "ISSUE"}, ledger)
                         - SumReservations(OpenReservationsOf(i))
                   IN  /\ UNCHANGED <<items, lots, ledger, reservations>>
                       /\ available < q =>
                             pc'[h] = "idle" /\ response'.code = "INSUFFICIENT_STOCK"
                       /\ (available >= q /\ ApprovedStock(i) = 0) =>
                             pc'[h] = "idle" /\ response'.code = "NO_QC_APPROVED_LOT"
                       /\ (available >= q /\ ApprovedStock(i) > 0) =>
                             pc'[h] = "write" /\ response'.code = "NONE"
      ]_vars

\* C25 witness: a reserve for more than available was refused with
\* INSUFFICIENT_STOCK although no lot of the item is APPROVED.
C25_Witness ==
    /\ response.op = "reserve"
    /\ response.code = "INSUFFICIENT_STOCK"
    /\ \E i \in DOMAIN items : AllQuarantine(i)

\* C26: the ISSUE entries recorded against a lot never add up to more than
\* the lot's received_qty, and no item's on_hand is negative.
C26_LotNeverOverIssued ==
    /\ \A l \in DOMAIN lots : LotIssuedQty(l) <= lots[l].received_qty
    /\ \A i \in DOMAIN items : calculate_stock(i).on_hand >= 0

\* C26 witness: two lots of an item are issued to the last unit, and an
\* issue request is in flight.
C26_Witness ==
    /\ Len(lots) = 2
    /\ \A l \in DOMAIN lots : LotIssuedQty(l) = lots[l].received_qty
    /\ \E h \in Handlers : req[h].op = "issue" /\ pc[h] = "check"

\* C27: a step removes no lot and changes no lot's item, lot_code or
\* received_qty; a lot changes only in the writing step of an
\* updateLotQcStatus call for that lot.
C27_LotFieldsFixed ==
    [][/\ Len(lots') >= Len(lots)
       /\ \A l \in DOMAIN lots :
             /\ lots'[l].item_id = lots[l].item_id
             /\ lots'[l].lot_code = lots[l].lot_code
             /\ lots'[l].received_qty = lots[l].received_qty
             /\ lots'[l] # lots[l] =>
                   \E h \in Handlers :
                       /\ pc[h] = "body" /\ req[h].op = "update_qc"
                       /\ req[h].lot_id = l
                       /\ lots'[l].qc_status = req[h].qc_status
      ]_vars

\* C27 witness: a QC decision was applied to a lot that stock was issued
\* from.
C27_Witness ==
    /\ response.op = "update_qc"
    /\ response.code = "OK"
    /\ LotIssuedQty(response.body.lot_id) > 0

\* C28: the writing step of an updateLotQcStatus call changes no lot but
\* its target, appends no ledger entry, changes no reservation and no item,
\* and leaves every item's summary as it was.
C28_QcUpdateKeepsSummary ==
    [][\A h \in Handlers :
          (pc[h] = "body" /\ req[h].op = "update_qc" /\ Moves(h)) =>
              /\ UNCHANGED <<items, ledger, reservations>>
              /\ Len(lots') = Len(lots)
              /\ \A l \in DOMAIN lots :
                    \/ lots'[l] = lots[l]
                    \/ /\ l = req[h].lot_id
                       /\ \E s \in QcStatuses :
                            lots'[l] = [lots[l] EXCEPT !.qc_status = s]
              /\ \A i \in DOMAIN items : calculate_stock(i)' = calculate_stock(i)
      ]_vars

\* C28 witness: a lot with stock left was set to REJECTED and its stock still
\* counts in the item's on_hand and available.
C28_Witness ==
    /\ response.op = "update_qc"
    /\ response.code = "OK"
    /\ response.body.qc_status = "REJECTED"
    /\ LotAvailable(response.body.lot_id) > 0
    /\ Len(lots) = 1
    /\ calculate_stock(lots[1].item_id).available = LotAvailable(1)

\* C29: a lot in QUARANTINE belongs to an item with qc_required set; no step
\* takes a lot that is not in QUARANTINE into QUARANTINE; and the writing
\* step of an updateLotQcStatus call on a lot leaves that lot APPROVED or
\* REJECTED, so a lot in QUARANTINE has had no QC decision applied.
C29_QuarantineOnlyBeforeDecision ==
    /\ [](\A l \in DOMAIN lots :
             lots[l].qc_status = "QUARANTINE" => items[lots[l].item_id].qc_required)
    /\ [][\A l \in DOMAIN lots :
             /\ lots[l].qc_status # "QUARANTINE" => lots'[l].qc_status # "QUARANTINE"
             /\ (\E h \in Handlers : /\ pc[h] = "body"
                                     /\ req[h].op = "update_qc"
                                     /\ req[h].lot_id = l
                                     /\ Moves(h))
                    => lots'[l].qc_status \in {"APPROVED", "REJECTED"}
         ]_vars

\* C29 witness: of two lots received for an item with qc_required, one has
\* had a QC decision applied and the other is still in QUARANTINE.
C29_Witness ==
    /\ response.op = "update_qc"
    /\ response.code = "OK"
    /\ lots[response.body.lot_id].qc_status # "QUARANTINE"
    /\ items[lots[response.body.lot_id].item_id].qc_required
    /\ \E l \in DOMAIN lots :
          /\ l # response.body.lot_id
          /\ lots[l].item_id = lots[response.body.lot_id].item_id
          /\ lots[l].qc_status = "QUARANTINE"

\* C30: with request quantities above 0, every entry of the ledger, of
\* whatever type, has a qty above 0; issueInventory writes no ISSUE entry of
\* qty 0 or less for a lot.
C30_LedgerQtyPositive ==
    \A e \in BagToSet(ledger) : e.qty > 0

\* C30 witness: an issue succeeded for an item that has an approved lot
\* exhausted by an earlier issue; the ledger holds entries of the four types.
C30_Witness ==
    /\ response.op = "issue"
    /\ response.code = "OK"
    /\ \A t \in TxnTypes : \E e \in BagToSet(ledger) : e.txn_type = t
    /\ \E l \in DOMAIN lots :
          /\ lots[l].item_id = response.body.item_id
          /\ lots[l].qc_status = "APPROVED"
          /\ LotAvailable(l) = 0
          /\ \A k \in DOMAIN response.body.lots_issued :
                response.body.lots_issued[k].lot_id # l

RECURSIVE SumTotalQty(_)
\* the totalQty of a set of reservations of the in-memory service, added up
SumTotalQty(S) ==
    IF S = {} THEN 0
    ELSE LET r == CHOOSE x \in S : TRUE
         IN  reservations[r].totalQty + SumTotalQty(S \ {r})

\* the reservations of an item that are not issued in full
NotCompleted(itemId) ==
    {r \in DOMAIN reservations :
        reservations[r].itemId = itemId /\ reservations[r].status # "COMPLETED"}

\* C31: in the in-memory service a COMPLETED reservation does not count in
\* the item's reserved quantity (reserved is at most what the reservations
\* not yet COMPLETED were made for), available is never negative for an
\* item or for a lot, and a successful issue leaves every item's available
\* as it was.
C31_CompletedNotReserved ==
    /\ [](/\ \A i \in DOMAIN items :
               /\ InventoryService_get_stock_summary(i).reserved
                      <= SumTotalQty(NotCompleted(i))
               /\ InventoryService_get_stock_summary(i).available >= 0
          /\ \A l \in DOMAIN lots :
               InventoryService_get_lot_summary(l).available >= 0)
    /\ [][(response'.op = "issue" /\ response'.code = "OK") =>
             \A i \in DOMAIN items :
                InventoryService_get_stock_summary(i)'.available
                    = InventoryService_get_stock_summary(i).available
         ]_vars

\* C32: in the in-memory service an issue_inventory call that fails with
\* RESERVATION_NOT_FOUND, INSUFFICIENT_RESERVED_STOCK or NO_QC_APPROVED_LOT
\* appends no ledger entry and leaves every reservation, its issuedQty and
\* status included, as it was.
C32_FailedIssueAppendsNothing ==
    [][(/\ response'.op = "issue"
        /\ response'.code \in {"RESERVATION_NOT_FOUND", "INSUFFICIENT_RESERVED_STOCK",
                               "NO_QC_APPROVED_LOT"})
          => /\ ledger' = ledger
             /\ reservations' = reservations
      ]_vars

\* the entries of type t tagged with a reservation, added up
TaggedSum(reservationId, t) ==
    LET Test(e) == e.reservationId = reservationId /\ e.txnType = t
    IN  SumQty(SelectSeq(ledger, Test))

\* the reservations made by reserve_inventory: all but the sample one
CreatedReservations == DOMAIN reservations \ DOMAIN SampleReservations

\* C33: in the in-memory service, for every reservation made by
\* reserve_inventory, the ISSUE entries tagged with it sum to its issuedQty,
\* issuedQty is at most totalQty, the RESERVE entries tagged with it sum to
\* totalQty, and its status is ACTIVE, PARTIAL or COMPLETED exactly when
\* issuedQty is 0, between 0 and totalQty, or totalQty.
C33_ReservationAgreesWithLedger ==
    \A r \in CreatedReservations :
        LET res == reservations[r]
        IN  /\ TaggedSum(r, "ISSUE") = res.issuedQty
            /\ res.issuedQty <= res.totalQty
            /\ TaggedSum(r, "RESERVE") = res.totalQty
            /\ res.status = "ACTIVE" <=> res.issuedQty = 0
            /\ res.status = "PARTIAL" <=> (0 < res.issuedQty /\ res.issuedQty < res.totalQty)
            /\ res.status = "COMPLETED" <=> res.issuedQty = res.totalQty

\* the APPROVED lots of an item, as a set
ApprovedLotsOf(itemId) ==
    {l \in DOMAIN lots : lots[l].itemId = itemId /\ lots[l].qcStatus = "APPROVED"}

RECURSIVE SumLotsAvailable(_)
\* what the lots of S have available, added up; a lot with nothing
\* available adds nothing
SumLotsAvailable(S) ==
    IF S = {} THEN 0
    ELSE LET l == CHOOSE x \in S : TRUE
             a == InventoryService_get_lot_summary(l).available
         IN  (IF a > 0 THEN a ELSE 0) + SumLotsAvailable(S \ {l})

\* the step is a successful reserve of q for item i that allocates FIFO:
\* over APPROVED lots of i in the order of receivedDate, all a lot has
\* available from each lot but the last, passing over no earlier lot that
\* has something available, and it appends exactly the RESERVE entries of
\* its allocations
ReservedFifo(i, q) ==
    LET allocations == response'.body.allocations
        n == Len(allocations)
        rid == Len(reservations) + 1
    IN  /\ n > 0
        /\ SumQty(allocations) = q
        /\ \A k \in 1..n :
              /\ allocations[k].lotId \in ApprovedLotsOf(i)
              /\ allocations[k].qty > 0
              /\ allocations[k].qty
                    <= InventoryService_get_lot_summary(allocations[k].lotId).available
              /\ k < n => allocations[k].qty
                    = InventoryService_get_lot_summary(allocations[k].lotId).available
              /\ \A j \in 1..(k - 1) :
                    /\ allocations[j].lotId # allocations[k].lotId
                    /\ lots[allocations[j].lotId].receivedDate
                          <= lots[allocations[k].lotId].receivedDate
        /\ \A l \in ApprovedLotsOf(i) :
              (/\ InventoryService_get_lot_summary(l).available > 0
               /\ \A k \in 1..n : allocations[k].lotId # l)
                 => lots[l].receivedDate >= lots[allocations[n].lotId].receivedDate
        /\ ledger' = ledger \o [k \in 1..n |->
                         ServiceEntry(i, allocations[k].lotId, "RESERVE",
                                      allocations[k].qty, rid)]
        /\ Len(reservations') = rid
        /\ reservations'[rid].totalQty = q

\* the error a reserve of q for item i ends with when the APPROVED lots of
\* i cannot cover q, by the order of the checks
RefusalCode(i, q) ==
    IF InventoryService_get_stock_summary(i).available < q THEN "INSUFFICIENT_STOCK"
    ELSE IF ApprovedLotsOf(i) = {} THEN "NO_QC_APPROVED_LOT"
    ELSE "INSUFFICIENT_APPROVED_STOCK"

\* C34 as stated: a successful reserve_inventory allocates FIFO over the
\* APPROVED lots by receivedDate, its RESERVE entries sum to qty and none
\* exceeds its lot's available; when the APPROVED lots cannot cover qty the
\* call fails with INSUFFICIENT_APPROVED_STOCK and changes nothing.
C34_UncoveredIsApprovedStockError ==
    [][response'.op = "reserve" =>
        \A i \in DOMAIN items, q \in ServiceReserveQtys :
          (/\ response'.body.itemId = i
           /\ response'.body.qty = q)
             => /\ response'.code = "OK" => ReservedFifo(i, q)
                /\ SumLotsAvailable(ApprovedLotsOf(i)) < q =>
                      /\ response'.code = "INSUFFICIENT_APPROVED_STOCK"
                      /\ UNCHANGED <<ledger, reservations>>
      ]_vars

\* C34, amended: a successful reserve_inventory allocates FIFO over the
\* APPROVED lots by receivedDate, its RESERVE entries sum to qty and none
\* exceeds its lot's available; when the APPROVED lots cannot cover qty the
\* call fails and changes nothing, with INSUFFICIENT_STOCK if the item's
\* available is below qty, else NO_QC_APPROVED_LOT if the item has no
\* APPROVED lot, else INSUFFICIENT_APPROVED_STOCK.
C34_FifoReserveOrRefusal ==
    [][response'.op = "reserve" =>
        \A i \in DOMAIN items, q \in ServiceReserveQtys :
          (/\ response'.body.itemId = i
           /\ response'.body.qty = q)
             => /\ response'.code = "OK" => ReservedFifo(i, q)
                /\ SumLotsAvailable(ApprovedLotsOf(i)) < q =>
                      /\ response'.code = RefusalCode(i, q)
                      /\ UNCHANGED <<ledger, reservations>>
      ]_vars

\* C34 witness: a reserve was granted over two lots, the lot received later
\* in the list first because its receivedDate is the earlier one.
C34_Witness ==
    /\ response.op = "reserve"
    /\ response.code = "OK"
    /\ Len(response.body.allocations) = 2
    /\ response.body.allocations[1].lotId > response.body.allocations[2].lotId
    /\ lots[response.body.allocations[1].lotId].receivedDate
          < lots[response.body.allocations[2].lotId].receivedDate

\* C35 (a): a reserve_inventory or issue_inventory call with a key under
\* which an earlier call of the same operation went through returns
\* IDEMPOTENT_REPLAY, appends no ledger row and leaves every stock summary
\* as it was; (b) a call returns IDEMPOTENT_REPLAY only if an earlier call
\* of the same operation used its key.
C35_ReplayOnlyOfSameOperation ==
    [][response'.op \in {"reserve", "issue"} =>
          \A key \in DjangoKeys :
             response'.body.key = key =>
                /\ (\E c \in touched : c.op = response'.op /\ c.key = key /\ c.code = "OK")
                      => /\ response'.code = "IDEMPOTENT_REPLAY"
                         /\ ledger' = ledger
                         /\ \A i \in DOMAIN items :
                               services_get_stock_summary(i)'
                                   = services_get_stock_summary(i)
                /\ response'.code = "IDEMPOTENT_REPLAY"
                      => \E c \in touched : c.op = response'.op /\ c.key = key
      ]_vars

====
